---- MODULE Spec2Model ----
(***************************************************************************)
(* Yorlect (src/app.py): a Streamlit speech-curation app.  The model holds *)
(* the SQLite tables users and recordings, the directory tree under        *)
(* DATA_DIR, the wall clock read by datetime.utcnow(), the uuid source,    *)
(* and every browser session's st.session_state.auth and widget state.     *)
(*                                                                         *)
(* A username is written as the list of its "/"-separated segments, which  *)
(* is how pathlib reads it in DATA_DIR / username: "joy" is <<"joy">> and  *)
(* "a/b" is <<"a", "b">>.  A filename is the list of its characters.       *)
(* A regular file is [dir |-> its directory, name |-> its filename].       *)
(***************************************************************************)
EXTENDS Integers, Sequences, FiniteSets, TLC

VARIABLES
    users,        \* table users: rows [username, password_hash, is_admin]
    recordings,   \* table recordings: rows [id, username, filename, filepath, timestamp]
    dirs,         \* directories on disk (segment lists)
    files,        \* regular files on disk
    clock,        \* the reading datetime.utcnow() returns now
    nextId,       \* index of the next value uuid.uuid4() returns
    adminPass,    \* ADMIN_PASS as read from the environment by the running process
    ran,          \* the script has run at least once
    auth,         \* st.session_state.auth of each session
    nav,          \* each session's "Go to" selectbox
    shown,        \* what the last run rendered of the Admin page for each session
    ticked,       \* each session's value of the confirmation checkbox widget
    everAdmin,    \* history: sessions that ever held is_admin = TRUE
    privLog,      \* history: privileged operations executed, with the auth they ran under
    zipOut,       \* the dataset ZIP the last step built, NoZip if it built none
    last,         \* the last operation and what it returned or raised
    pc,           \* position of each concurrent call inside its function
    loc,          \* locals of each concurrent call
    hist          \* history: successful and failed ingests, bulk deletes

vars == <<users, recordings, dirs, files, clock, nextId, adminPass, ran, auth, nav,
          shown, ticked, everAdmin, privLog, zipOut, last, pc, loc, hist>>

storeVars == <<users, recordings, dirs, files, clock, nextId>>
uiVars == <<adminPass, ran, auth, nav, shown, ticked, everAdmin, privLog>>
procVars == <<pc, loc>>

----------------------------------------------------------------------------
(* Bounds of the model *)

MaxRecordings == 2
MaxClock == 1
MaxNameLen == 4
NumSalts == 2

----------------------------------------------------------------------------
(* Constants of the program *)

DATA_DIR == <<"data">>

AdminName == <<"admin">>

FallbackExt == <<".", "w", "a", "v">>

Passwords == {"yorlect_admin", "pw"}

Salts == 1..NumSalts

Sessions == {"s1", "s2"}

Uuids == <<"id1", "id2", "id3", "id4", "id5">>

NoAuth == [logged_in |-> FALSE, username |-> <<>>, is_admin |-> FALSE]

----------------------------------------------------------------------------
(* werkzeug.security: a hash keeps the password it was made from and a     *)
(* fresh random salt; check_password_hash recomputes with the stored salt. *)

generate_password_hash(password, salt) == [pw |-> password, salt |-> salt]

check_password_hash(pw_hash, password) == pw_hash.pw = password

----------------------------------------------------------------------------
(* The file system *)

Prefixes(p) == {SubSeq(p, 1, n) : n \in 1..Len(p)}

\* Path.mkdir(parents=True, exist_ok=True)
Mkdir(ds, p) == ds \cup Prefixes(p)

IsChildDir(d, p) == Len(d) = Len(p) + 1 /\ SubSeq(d, 1, Len(p)) = p

\* Path.exists() of a stored filepath
FileExists(fs, fp) == fp \in fs

UnderRoot(f) == Len(f.dir) >= 1 /\ SubSeq(f.dir, 1, 1) = DATA_DIR

----------------------------------------------------------------------------
(* pathlib: Path(original_filename).suffix *)

\* the characters after the last "/" of a character list
RECURSIVE AfterLastSlash(_)
AfterLastSlash(cs) ==
    IF \E i \in 1..Len(cs) : cs[i] = "/"
    THEN AfterLastSlash(Tail(cs))
    ELSE cs

\* pathlib drops trailing "/" and trailing "/." before it names the last part
RECURSIVE StripTrailing(_)
StripTrailing(cs) ==
    IF Len(cs) >= 1 /\ cs[Len(cs)] = "/"
    THEN StripTrailing(SubSeq(cs, 1, Len(cs) - 1))
    ELSE IF Len(cs) >= 2 /\ cs[Len(cs)] = "." /\ cs[Len(cs) - 1] = "/"
    THEN StripTrailing(SubSeq(cs, 1, Len(cs) - 1))
    ELSE cs

\* PurePath.name
PathName(cs) ==
    LET n == AfterLastSlash(StripTrailing(cs))
    IN  IF n = <<".">> /\ Len(StripTrailing(cs)) = 1 THEN <<>> ELSE n

\* str.rfind(".") + 1, or 0 when there is no "."
LastDot(name) ==
    IF \E i \in 1..Len(name) : name[i] = "."
    THEN CHOOSE i \in 1..Len(name) :
            name[i] = "." /\ \A j \in (i + 1)..Len(name) : name[j] # "."
    ELSE 0

\* PurePath.suffix: name[i:] when 0 < i < len(name) - 1 (0-based i), else ""
PathSuffix(cs) ==
    LET name == PathName(cs)
        i    == LastDot(name)
    IN  IF 1 < i /\ i < Len(name) THEN SubSeq(name, i, Len(name)) ELSE <<>>

----------------------------------------------------------------------------
(* Database helpers *)

HasUser(us, username) == \E r \in us : r.username = username

UserRow(us, username) == CHOOSE r \in us : r.username = username

\* INSERT OR REPLACE INTO users: a row with the same primary key is replaced
InsertOrReplace(us, row) == {r \in us : r.username # row.username} \cup {row}

\* an ensure_admin_user that writes the admin row on every run
ensure_admin_user_AlwaysReplace(us, pass, salt) ==
    InsertOrReplace(us, [username |-> AdminName,
                         password_hash |-> generate_password_hash(pass, salt),
                         is_admin |-> TRUE])

\* ensure_admin_user(): the users table afterwards
ensure_admin_user(us, pass, salt) ==
    IF \E r \in us : r.is_admin
    THEN us
    ELSE InsertOrReplace(us, [username |-> AdminName,
                              password_hash |-> generate_password_hash(pass, salt),
                              is_admin |-> TRUE])

\* sign_up(username, password): what it returns, and the table and the
\* directories afterwards
sign_up(us, ds, username, password, salt) ==
    IF HasUser(us, username)
    THEN [ok |-> FALSE, msg |-> "Username already exists", users |-> us, dirs |-> ds]
    ELSE [ok |-> TRUE, msg |-> "User created",
          users |-> us \cup {[username |-> username,
                              password_hash |-> generate_password_hash(password, salt),
                              is_admin |-> FALSE]},
          dirs |-> Mkdir(ds, DATA_DIR \o username)]

\* login_user(username, password)
login_user(us, username, password) ==
    IF ~HasUser(us, username)
    THEN [ok |-> FALSE, is_admin |-> FALSE, msg |-> "No such user"]
    ELSE IF check_password_hash(UserRow(us, username).password_hash, password)
    THEN [ok |-> TRUE, is_admin |-> UserRow(us, username).is_admin, msg |-> "ok"]
    ELSE [ok |-> FALSE, is_admin |-> FALSE, msg |-> "Incorrect password"]

----------------------------------------------------------------------------
(* Recording save helpers.  A store is [recordings, dirs, files, nextId].  *)
(* duration_seconds and the metadata columns are written and never read    *)
(* by the program's logic; the model leaves those columns out.             *)

Store(rs, ds, fs, n) == [recordings |-> rs, dirs |-> ds, files |-> fs, nextId |-> n]

\* ext = Path(original_filename).suffix or ".wav"
ExtOf(original_filename) ==
    IF PathSuffix(original_filename) # <<>> THEN PathSuffix(original_filename)
    ELSE FallbackExt

\* a file name that keeps the whole name the user supplied
StoredName_KeepsOriginal(uid, original_filename) == <<uid>> \o original_filename

\* filename = f"{uid}{ext}"
StoredName(uid, original_filename) == <<uid>> \o ExtOf(original_filename)

\* filepath = user_dir / filename
StoredPath(username, uid, original_filename) ==
    [dir |-> DATA_DIR \o username, name |-> StoredName(uid, original_filename)]

RecordingRow(username, uid, original_filename, now) ==
    [id |-> uid, username |-> username,
     filename |-> StoredName(uid, original_filename),
     filepath |-> StoredPath(username, uid, original_filename),
     timestamp |-> now]

\* the outcomes of "with open(filepath, 'wb') as f: f.write(file_bytes)"
WriteOutcomes == {"written", "open_raises", "write_raises"}

\* save_recording up to and including the write of the bytes: the store
\* afterwards.  open() creates the file before write() can fail.
WriteAudio(st, username, original_filename, outcome) ==
    [st EXCEPT !.nextId = @ + 1,
               !.dirs = Mkdir(@, DATA_DIR \o username),
               !.files = IF outcome = "open_raises" THEN @
                         ELSE @ \cup {StoredPath(username, Uuids[st.nextId],
                                                 original_filename)}]

\* save_recording from the INSERT on
InsertRecording(st, username, uid, original_filename, now) ==
    [st EXCEPT !.recordings =
        @ \cup {RecordingRow(username, uid, original_filename, now)}]

\* a save_recording that writes the index row before the bytes
save_recording_IndexFirst(st, username, original_filename, now, outcome) ==
    LET uid == Uuids[st.nextId]
        w   == WriteAudio(st, username, original_filename, outcome)
    IN  [raised |-> outcome # "written", uid |-> uid,
         store |-> InsertRecording(w, username, uid, original_filename, now)]

\* save_recording(username, file_bytes, original_filename, metadata): the
\* store afterwards and the uid returned, or that it raised
save_recording(st, username, original_filename, now, outcome) ==
    LET uid == Uuids[st.nextId]
        w   == WriteAudio(st, username, original_filename, outcome)
    IN  IF outcome = "written"
        THEN [raised |-> FALSE, uid |-> uid,
              store |-> InsertRecording(w, username, uid, original_filename, now)]
        ELSE [raised |-> TRUE, uid |-> uid, store |-> w]

\* the orders in which "ORDER BY timestamp DESC" may return a set of rows:
\* rows with equal timestamps come in an order SQL leaves open
OrderedDesc(rows) ==
    {s \in [1..Cardinality(rows) -> rows] :
        /\ \A i, j \in DOMAIN s : i # j => s[i] # s[j]
        /\ \A i, j \in DOMAIN s : i < j => s[i].timestamp >= s[j].timestamp}

get_user_recordings(rs, username) == OrderedDesc({r \in rs : r.username = username})

get_all_recordings(rs) == OrderedDesc(rs)

----------------------------------------------------------------------------
(* Admin page, "Create ZIP of all audio files" *)

\* arcname = f"{username_r}/{filename_r}"
ArcName(row) == [dir |-> row.username, name |-> row.filename]

\* a ZIP loop without the try: the first file that cannot be read ends it
RECURSIVE ZipEntries_StopAtFirstError(_, _)
ZipEntries_StopAtFirstError(all_rows, fs) ==
    IF all_rows = <<>> THEN <<>>
    ELSE IF FileExists(fs, Head(all_rows).filepath)
    THEN <<ArcName(Head(all_rows))>> \o ZipEntries_StopAtFirstError(Tail(all_rows), fs)
    ELSE <<>>

\* zf.write(filepath_r, arcname=...) for each row in turn; a row whose file
\* is missing or unreadable raises inside the try and is skipped; fs are the
\* files that can be read
RECURSIVE ZipEntries(_, _)
ZipEntries(all_rows, fs) ==
    IF all_rows = <<>> THEN <<>>
    ELSE IF FileExists(fs, Head(all_rows).filepath)
    THEN <<ArcName(Head(all_rows))>> \o ZipEntries(Tail(all_rows), fs)
    ELSE ZipEntries(Tail(all_rows), fs)

----------------------------------------------------------------------------
(* Admin page, danger zone: the body of the confirmed delete *)

\* for p in DATA_DIR.glob("*"): if p.is_dir(): for f in p.glob("*"): f.unlink()
\* unlink() raises on a directory and the error is swallowed
FilesAfterDelete(ds, fs) ==
    {f \in fs : ~(f.dir \in ds /\ IsChildDir(f.dir, DATA_DIR))}

\* p.rmdir() succeeds only on a directory left empty
DirsAfterDelete(ds, fs) ==
    {d \in ds : ~(/\ IsChildDir(d, DATA_DIR)
                  /\ ~\E c \in ds : IsChildDir(c, d))}

\* the file pass, then DELETE FROM recordings
DeleteAllRecordings(st) ==
    [st EXCEPT !.recordings = {},
               !.files = FilesAfterDelete(st.dirs, st.files),
               !.dirs = DirsAfterDelete(st.dirs, st.files)]

----------------------------------------------------------------------------
(* Initial values *)

\* the file name the Record page passes when nothing was uploaded
RecordingWav == <<"r", "e", "c", "o", "r", "d", "i", "n", "g", ".", "w", "a", "v">>

DefaultAdminPass == "yorlect_admin"

NoLast == [op |-> "none", session |-> "none", username |-> <<>>, uid |-> "none",
           result |-> "none", fn |-> <<>>]

Last(op, s, username, uid, result, fn) ==
    [op |-> op, session |-> s, username |-> username, uid |-> uid,
     result |-> result, fn |-> fn]

NoHist == [saved |-> <<>>, failed |-> {}, deletes |-> 0, run |-> 0]

CurrentStore == Store(recordings, dirs, files, nextId)

SetStore(st) ==
    /\ recordings' = st.recordings
    /\ dirs' = st.dirs
    /\ files' = st.files
    /\ nextId' = st.nextId

NoZip == [rows |-> <<>>, entries |-> <<>>, unreadable |-> {}]

UiInit ==
    /\ adminPass = DefaultAdminPass
    /\ auth = [s \in Sessions |-> NoAuth]
    /\ nav = [s \in Sessions |-> "Home"]
    /\ shown = [s \in Sessions |-> "unloaded"]
    /\ ticked = [s \in Sessions |-> FALSE]
    /\ everAdmin = {}
    /\ privLog = {}
    /\ zipOut = NoZip

\* the script runs of the sessions, and of the administrator's session, that
\* may be inside a helper at the same time
Procs == Sessions \cup {"admin"}

NoLoc == [username |-> <<>>, password_hash |-> generate_password_hash("", 1),
          uid |-> "none", fn |-> <<>>, result |-> "none"]

ProcInit ==
    /\ pc = [p \in Procs |-> "idle"]
    /\ loc = [p \in Procs |-> NoLoc]

\* the state the first run of the script leaves: DATA_DIR.mkdir, init_db(),
\* ensure_admin_user()
LoadedInit ==
    /\ users = ensure_admin_user({}, DefaultAdminPass, 1)
    /\ recordings = {}
    /\ dirs = {DATA_DIR}
    /\ files = {}
    /\ clock = 0
    /\ nextId = 1
    /\ ran = TRUE
    /\ last = NoLast
    /\ hist = NoHist
    /\ UiInit
    /\ ProcInit

----------------------------------------------------------------------------
(* SpecStore: the helpers called one after another, each to completion *)

Owners == {<<"joy">>, <<"a", "b">>}

\* datetime.utcnow() moves on between two calls, or does not
Tick ==
    /\ clock < MaxClock
    /\ clock' = clock + 1
    /\ UNCHANGED <<users, recordings, dirs, files, nextId, last, hist>>
    /\ UNCHANGED uiVars /\ UNCHANGED zipOut
    /\ UNCHANGED procVars

CallSignUp(username, password, salt) ==
    LET r == sign_up(users, dirs, username, password, salt)
    IN  /\ users' = r.users
        /\ dirs' = r.dirs
        /\ last' = Last("sign_up", "none", username, "none", r.msg, <<>>)
        /\ UNCHANGED <<recordings, files, clock, nextId, hist>>
        /\ UNCHANGED uiVars /\ zipOut' = NoZip
        /\ UNCHANGED procVars

HistAfterSave(r, username, outcome) ==
    IF outcome # "written"
    THEN [hist EXCEPT !.failed = @ \cup {r.uid}, !.run = 0]
    ELSE [hist EXCEPT !.saved = Append(@, [owner |-> username, uid |-> r.uid]),
                      !.run = 0]

CallSaveRecording(username, original_filename, outcome) ==
    LET r == save_recording(CurrentStore, username, original_filename, clock, outcome)
    IN  /\ nextId <= MaxRecordings
        /\ HasUser(users, username)
        /\ SetStore(r.store)
        /\ last' = Last("save_recording", "none", username, r.uid,
                        IF r.raised THEN "raised" ELSE "returned", original_filename)
        /\ hist' = HistAfterSave(r, username, outcome)
        /\ UNCHANGED <<users, clock>>
        /\ UNCHANGED uiVars /\ zipOut' = NoZip
        /\ UNCHANGED procVars

CallDeleteAll ==
    /\ hist.run < 2
    /\ SetStore(DeleteAllRecordings(CurrentStore))
    /\ last' = Last("delete_all", "none", <<>>, "none", "returned", <<>>)
    /\ hist' = [hist EXCEPT !.deletes = 1, !.run = @ + 1]
    /\ UNCHANGED <<users, clock>>
    /\ UNCHANGED uiVars /\ zipOut' = NoZip
    /\ UNCHANGED procVars

NextStore ==
    \/ Tick
    \/ \E u \in Owners : CallSignUp(u, "pw", 1)
    \/ \E u \in Owners, o \in WriteOutcomes : CallSaveRecording(u, RecordingWav, o)
    \/ CallDeleteAll

SpecStore == LoadedInit /\ [][NextStore]_vars

----------------------------------------------------------------------------
(* Claims checked under SpecStore *)

SavedBy(u) == {i \in DOMAIN hist.saved : hist.saved[i].owner = u}

\* position of a row's ingest in the order the ingests were made
IngestIndex(row) == CHOOSE i \in DOMAIN hist.saved : hist.saved[i].uid = row.id

\* C2: after N save_recording calls for an owner and no bulk delete,
\* get_user_recordings(owner) returns exactly N rows, all the owner's, with
\* strictly decreasing timestamps, the most recently ingested first.
C2_ListingStrictlyNewestFirst ==
    hist.deletes = 0 =>
        \A u \in Owners : \A s \in get_user_recordings(recordings, u) :
            /\ Len(s) = Cardinality(SavedBy(u))
            /\ \A i \in DOMAIN s : s[i].username = u
            /\ \A i, j \in DOMAIN s : i < j =>
                  /\ s[i].timestamp > s[j].timestamp
                  /\ IngestIndex(s[i]) > IngestIndex(s[j])

\* C3: a save_recording whose byte write failed raised, added no row to
\* recordings, and its id appears in no listing and in no ZIP export.
C3_FailedWriteLeavesNoRow ==
    /\ \A uid \in hist.failed :
          /\ \A r \in recordings : r.id # uid
          /\ \A s \in get_all_recordings(recordings) :
                /\ \A i \in DOMAIN s : s[i].id # uid
                /\ \A i \in DOMAIN ZipEntries(s, files) :
                      ZipEntries(s, files)[i].name[1] # uid
    /\ (last.op = "save_recording" /\ last.uid \in hist.failed) => last.result = "raised"
    /\ \A r \in recordings : \E i \in DOMAIN hist.saved : hist.saved[i].uid = r.id

\* a failed write has happened, it left its partial file on disk, and a later
\* save succeeded
C3_Witness ==
    /\ hist.failed # {}
    /\ \E f \in files : f.name[1] \in hist.failed
    /\ recordings # {}
    /\ last.op = "save_recording" /\ last.result = "returned"

\* C4: after the bulk delete, the first time and the second time in a row,
\* no file is left under the storage root and recordings has no row.
C4_DeleteAllEmptiesStore ==
    last.op = "delete_all" =>
        /\ recordings = {}
        /\ ~\E f \in files : UnderRoot(f)

----------------------------------------------------------------------------
(* SpecIngest: one save_recording call for each original file name *)

Alphabet == {"a", ".", "/"}

\* the extensions the Record page's uploader lets through
RecognizedExts == {<<".", "w", "a", "v">>, <<".", "m", "p", "3">>,
                   <<".", "m", "4", "a">>, <<".", "o", "g", "g">>}

FileNames ==
    UNION {[1..n -> Alphabet] : n \in 0..MaxNameLen}
        \cup {RecordingWav, <<"x", ".", "m", "p", "3">>, <<"x", ".", "e", "x", "e">>,
              <<"a", ".", "w", "a", "v", "/", "b">>}

Ingest(u, fn) ==
    /\ hist.saved = <<>>
    /\ CallSaveRecording(u, fn, "written")

NextIngest ==
    \/ \E u \in Owners : CallSignUp(u, "pw", 1)
    \/ \E u \in Owners, fn \in FileNames : Ingest(u, fn)

SpecIngest == LoadedInit /\ [][NextIngest]_vars

Contains(seq, x) == \E i \in DOMAIN seq : seq[i] = x

\* e occurs in fn as a run of consecutive characters
OccursIn(e, fn) ==
    \E k \in 0..(Len(fn) - Len(e)) : \A i \in 1..Len(e) : fn[k + i] = e[i]

\* C7 as amended: the saved file is {DATA_DIR}/{username}/{uid}{ext}; ext is
\* the suffix of the original file name's last part, whatever it is, and
\* ".wav" only when that part has no suffix; ext is a "." followed by
\* characters of the original name that hold no "." and no "/", and nothing
\* else of the original name is in the stored name or path.
C7_StoredNameIsIdPlusSuffix ==
    last.op = "save_recording" /\ last.result = "returned" =>
        LET ext == IF PathSuffix(last.fn) = <<>> THEN FallbackExt ELSE PathSuffix(last.fn)
            f   == [dir |-> DATA_DIR \o last.username, name |-> <<last.uid>> \o ext]
        IN  /\ files = {f}
            /\ \A r \in recordings :
                  r.id = last.uid /\ r.filepath = f /\ r.filename = f.name
            /\ recordings # {}
            /\ ext[1] = "." /\ Len(ext) >= 2
            /\ ~Contains(Tail(ext), ".") /\ ~Contains(ext, "/")
            /\ ext = FallbackExt \/ OccursIn(ext, last.fn)
            /\ ext # FallbackExt => OccursIn(ext, last.fn)

\* a name with no suffix was stored under the fallback, and the name had a
\* directory part and a dot the suffix rule does not count
C7_Witness ==
    /\ last.op = "save_recording" /\ last.result = "returned"
    /\ last.fn = <<"a", "/", ".", "a">>
    /\ files = {[dir |-> DATA_DIR \o last.username,
                 name |-> <<last.uid>> \o FallbackExt]}

\* C7 as claimed: the extension is the original one when it is a recognized
\* one, and ".wav" when it is absent or unrecognized.
C7_FallbackWhenAbsentOrUnrecognized ==
    last.op = "save_recording" /\ last.result = "returned" =>
        LET ext == IF PathSuffix(last.fn) \in RecognizedExts
                   THEN PathSuffix(last.fn) ELSE FallbackExt
        IN  files = {[dir |-> DATA_DIR \o last.username,
                      name |-> <<last.uid>> \o ext]}

----------------------------------------------------------------------------
(* Spec: the Streamlit script.  Every interaction of a session reruns the  *)
(* whole script to completion: DATA_DIR.mkdir, init_db, ensure_admin_user, *)
(* show_login, then the page the "Go to" box names.  A button is True only *)
(* in the run its click starts; a widget can be used only if the session's *)
(* last run rendered it, and a widget a run does not render loses its      *)
(* value (ticked[s] is FALSE after such a run).  shown[s] is what the     *)
(* last run rendered for s: "unloaded" (no run yet), "page", "panel" (the  *)
(* Admin panel) or "confirm" (the panel with the confirmation checkbox).   *)
(* The Metadata and Progress pages only                                    *)
(* read the store or write the metadata columns; they are under "Home".    *)

MaxUiRecordings == 1

UiUsernames == {<<"admin">>, <<"joy">>}

Pages == {"Home", "Record", "Admin"}

\* a gate that forgets is_admin
AdminGate_LoggedInOnly(a) == a.logged_in

\* "if not logged_in or not is_admin: warning, else: the panel"
AdminGate(a) == a.logged_in /\ a.is_admin

\* 'if st.button("Delete all recordings (IRREVERSIBLE)"):': the button is
\* True only in the run its click started
DeleteButton(click) == click = "delete"

\* 'if st.checkbox("I understand ..."):' is reached, and the checkbox
\* rendered, only under the button; it returns the widget's value
ConfirmedDelete(button, checked) == button /\ checked

\* the privileged operations a run of the Admin panel executes
PanelOps(click, deleting) ==
    {"list_all"}
        \cup (IF click = "csv" THEN {"export_csv"} ELSE {})
        \cup (IF click = "zip" THEN {"export_zip"} ELSE {})
        \cup (IF deleting THEN {"delete_all"} ELSE {})

\* the script from "nav = ..." on: session s with auth a after show_login,
\* the users table us after ensure_admin_user and show_login, on page `page`,
\* directories ds, started by `click`, with the confirmation checkbox's
\* widget value `checked` when the run starts
RunPage(s, a, us, ds, page, click, checked, fn, outcome, rows) ==
    LET st0      == Store(recordings, ds, files, nextId)
        saving   == page = "Record" /\ a.logged_in /\ click = "save"
        r        == save_recording(st0, a.username, fn, clock, outcome)
        gate     == page = "Admin" /\ AdminGate(a)
        rendered == gate /\ DeleteButton(click)
        deleting == gate /\ ConfirmedDelete(DeleteButton(click), checked)
        st1      == IF saving THEN r.store
                    ELSE IF deleting THEN DeleteAllRecordings(st0)
                    ELSE st0
    IN  /\ users' = us
        /\ SetStore(st1)
        /\ ran' = TRUE
        /\ auth' = [auth EXCEPT ![s] = a]
        /\ nav' = [nav EXCEPT ![s] = page]
        /\ shown' = [shown EXCEPT ![s] =
                        IF ~gate THEN "page"
                        ELSE IF rendered THEN "confirm" ELSE "panel"]
        /\ ticked' = [ticked EXCEPT ![s] = rendered /\ checked]
        /\ everAdmin' = IF a.is_admin THEN everAdmin \cup {s} ELSE everAdmin
        /\ privLog' = IF gate
                      THEN {[op |-> o, session |-> s, auth |-> a] :
                                o \in PanelOps(click, deleting)}
                      ELSE {}
        /\ zipOut' = IF gate /\ click = "zip"
                     THEN [rows |-> rows, entries |-> ZipEntries(rows, files), unreadable |-> {}]
                     ELSE NoZip
        /\ last' = Last(click, IF click = "none" THEN "none" ELSE s,
                        IF saving THEN a.username ELSE <<>>,
                        IF saving THEN r.uid ELSE "none",
                        IF saving THEN (IF r.raised THEN "raised" ELSE "returned")
                        ELSE IF deleting THEN "deleted" ELSE "rendered",
                        IF saving THEN fn ELSE <<>>)
        /\ hist' = IF saving THEN HistAfterSave(r, a.username, outcome)
                   ELSE IF deleting THEN [hist EXCEPT !.deletes = 1, !.run = @ + 1]
                   ELSE hist
        /\ UNCHANGED <<clock, adminPass>>
        /\ UNCHANGED procVars

Loaded(s) == shown[s] # "unloaded"

\* the top of the script: DATA_DIR.mkdir(exist_ok=True), init_db() and
\* ensure_admin_user(), whose hash has a salt drawn at random
BootDirs == dirs \cup {DATA_DIR}

BootUsers == {ensure_admin_user(users, adminPass, salt) : salt \in Salts}

\* the first page view of a session
Load(s) ==
    /\ ~Loaded(s)
    /\ \E us \in BootUsers :
          RunPage(s, auth[s], us, BootDirs, nav[s], "none", ticked[s], <<>>,
                  "written", <<>>)

\* the "Go to" box is set to a page (or another widget changes and no button
\* is pressed)
Navigate(s, page) ==
    /\ Loaded(s)
    /\ \E us \in BootUsers :
          RunPage(s, auth[s], us, BootDirs, page, "none", ticked[s], <<>>,
                  "written", <<>>)

\* show_login, tab "Login", button "Login"
Login(s, username, password) ==
    /\ Loaded(s)
    /\ \E us \in BootUsers :
          LET ok == login_user(us, username, password)
              a  == IF ok.ok
                    THEN [logged_in |-> TRUE, username |-> username,
                          is_admin |-> ok.is_admin]
                    ELSE auth[s]
          IN  RunPage(s, a, us, BootDirs,
                      nav[s], "none", ticked[s], <<>>, "written", <<>>)

\* what the "Create account" branch may return: the password check, then
\* sign_up with a salt drawn at random
CreateAccount(us, ds, username, password, confirm) ==
    IF password # confirm
    THEN {[ok |-> FALSE, msg |-> "Passwords don't match", users |-> us, dirs |-> ds]}
    ELSE {sign_up(us, ds, username, password, salt) : salt \in Salts}

\* show_login, tab "Sign up", button "Create account"
SignUp(s, username, password, confirm) ==
    /\ Loaded(s)
    /\ \E us \in BootUsers :
          \E r \in CreateAccount(us, BootDirs, username, password, confirm) :
              RunPage(s, auth[s],
                      r.users, r.dirs, nav[s], "none", ticked[s], <<>>,
                      "written", <<>>)

\* show_login, tab "Logout", button "Logout"
Logout(s) ==
    /\ Loaded(s)
    /\ \E us \in BootUsers :
          RunPage(s, NoAuth, us, BootDirs, nav[s], "none", ticked[s], <<>>,
                  "written", <<>>)

\* Record page, button "Save recording to dataset" (SpecStore has the saves
\* whose write fails)
SaveClick(s, fn, outcome) ==
    /\ Loaded(s) /\ nav[s] = "Record" /\ auth[s].logged_in
    /\ nextId <= MaxUiRecordings
    /\ \E us \in BootUsers :
          RunPage(s, auth[s], us, BootDirs, nav[s], "save", ticked[s], fn,
                  outcome, <<>>)

\* Admin panel, buttons "Export metadata CSV", "Create ZIP of all audio
\* files", "Delete all recordings (IRREVERSIBLE)"
PanelClick(s, click) ==
    /\ shown[s] \in {"panel", "confirm"}
    /\ \E us \in BootUsers, rows \in get_all_recordings(recordings) :
          RunPage(s, auth[s], us, BootDirs, nav[s], click, ticked[s],
                  <<>>, "written", rows)

\* Admin panel, the checkbox "I understand this will delete all audio and
\* metadata" is ticked
TickConfirm(s) ==
    /\ shown[s] = "confirm"
    /\ \E us \in BootUsers :
          RunPage(s, auth[s], us, BootDirs, nav[s], "tick", TRUE, <<>>,
                  "written", <<>>)

\* the server process is started again with YORLECT_ADMIN_PASS = pass: the
\* sessions' state is gone, the database and the files stay
Restart(pass) ==
    /\ adminPass' = pass
    /\ auth' = [s \in Sessions |-> NoAuth]
    /\ nav' = [s \in Sessions |-> "Home"]
    /\ shown' = [s \in Sessions |-> "unloaded"]
    /\ ticked' = [s \in Sessions |-> FALSE]
    /\ everAdmin' = {}
    /\ privLog' = {}
    /\ zipOut' = NoZip
    /\ last' = NoLast
    /\ UNCHANGED <<users, recordings, dirs, files, clock, nextId, ran, hist>>
    /\ UNCHANGED procVars

\* before the first run: no database, no data directory
Init ==
    /\ users = {}
    /\ recordings = {}
    /\ dirs = {}
    /\ files = {}
    /\ clock = 0
    /\ nextId = 1
    /\ ran = FALSE
    /\ last = NoLast
    /\ hist = NoHist
    /\ UiInit
    /\ ProcInit

Next ==
    \/ \E s \in Sessions : Load(s)
    \/ \E s \in Sessions, page \in Pages : Navigate(s, page)
    \/ \E s \in Sessions, u \in UiUsernames, p \in Passwords : Login(s, u, p)
    \/ \E s \in Sessions, u \in UiUsernames, c \in Passwords : SignUp(s, u, "pw", c)
    \/ \E s \in Sessions : Logout(s)
    \/ \E s \in Sessions : SaveClick(s, RecordingWav, "written")
    \/ \E s \in Sessions, click \in {"csv", "zip", "delete"} : PanelClick(s, click)
    \/ \E s \in Sessions : TickConfirm(s)
    \/ \E p \in Passwords : Restart(p)

Spec == Init /\ [][Next]_vars

----------------------------------------------------------------------------
(* SpecExport: ingests, files lost behind the program's back, and the ZIP  *)
(* export of the Admin panel, each to completion *)

\* a stored file is removed by something other than the program
RemoveOutOfBand(f) ==
    /\ f \in files
    /\ files' = files \ {f}
    /\ last' = Last("remove_file", "none", <<>>, f.name[1], "none", <<>>)
    /\ UNCHANGED <<users, recordings, dirs, clock, nextId, hist>>
    /\ UNCHANGED uiVars /\ zipOut' = NoZip
    /\ UNCHANGED procVars

\* the body of 'if st.button("Create ZIP of all audio files")' over the rows
\* all_rows = get_all_recordings() returned; the files in `unreadable` exist
\* and open() on them raises
CallExportZip(all_rows, unreadable) ==
    /\ zipOut' = [rows |-> all_rows, entries |-> ZipEntries(all_rows, files \ unreadable),
                  unreadable |-> unreadable]
    /\ last' = Last("export_zip", "none", <<>>, "none", "returned", <<>>)
    /\ UNCHANGED uiVars
    /\ UNCHANGED <<users, recordings, dirs, files, clock, nextId, hist>>
    /\ UNCHANGED procVars

NextExport ==
    \/ Tick
    \/ \E u \in Owners : CallSignUp(u, "pw", 1)
    \/ \E u \in Owners : CallSaveRecording(u, RecordingWav, "written")
    \/ \E f \in files : RemoveOutOfBand(f)
    \/ \E rows \in get_all_recordings(recordings),
          bad \in {{}} \cup {{f} : f \in files} : CallExportZip(rows, bad)

SpecExport == LoadedInit /\ [][NextExport]_vars

\* the places of a row in a listing
PlacesIn(rows, r) == {i \in DOMAIN rows : rows[i] = r}

----------------------------------------------------------------------------
(* SpecSignUpRace: sign_up called by two sessions whose script runs        *)
(* overlap.  The SELECT and the INSERT with its commit are one database    *)
(* operation each; the table's PRIMARY KEY makes the INSERT of a username  *)
(* that is already there raise sqlite3.IntegrityError.                     *)

\* sign_up is entered: cur.execute("SELECT ...") and cur.fetchone()
SignUpSelect(s, username, password) ==
    /\ pc[s] = "idle"
    /\ loc[s].result = "none"
    /\ IF HasUser(users, username)
       THEN /\ pc' = [pc EXCEPT ![s] = "done"]
            /\ loc' = [loc EXCEPT ![s] = [NoLoc EXCEPT !.username = username,
                                          !.result = "Username already exists"]]
       ELSE /\ pc' = [pc EXCEPT ![s] = "insert"]
            /\ \E salt \in Salts :
                  loc' = [loc EXCEPT ![s] = [NoLoc EXCEPT !.username = username,
                              !.password_hash = generate_password_hash(password, salt)]]
    /\ UNCHANGED <<last, hist, zipOut>>
    /\ UNCHANGED storeVars
    /\ UNCHANGED uiVars

\* cur.execute("INSERT INTO users ...") and conn.commit()
SignUpInsert(s) ==
    /\ pc[s] = "insert"
    /\ IF HasUser(users, loc[s].username)
       THEN /\ pc' = [pc EXCEPT ![s] = "done"]
            /\ loc' = [loc EXCEPT ![s].result = "raised IntegrityError"]
            /\ UNCHANGED users
       ELSE /\ pc' = [pc EXCEPT ![s] = "mkdir"]
            /\ users' = users \cup {[username |-> loc[s].username,
                                     password_hash |-> loc[s].password_hash,
                                     is_admin |-> FALSE]}
            /\ UNCHANGED loc
    /\ UNCHANGED <<recordings, dirs, files, clock, nextId, last, hist, zipOut>>
    /\ UNCHANGED uiVars

\* (DATA_DIR / username).mkdir(parents=True, exist_ok=True); return True
SignUpMkdir(s) ==
    /\ pc[s] = "mkdir"
    /\ dirs' = Mkdir(dirs, DATA_DIR \o loc[s].username)
    /\ pc' = [pc EXCEPT ![s] = "done"]
    /\ loc' = [loc EXCEPT ![s].result = "User created"]
    /\ UNCHANGED <<users, recordings, files, clock, nextId, last, hist, zipOut>>
    /\ UNCHANGED uiVars

NextSignUpRace ==
    \/ \E s \in Sessions, u \in Owners, p \in Passwords : SignUpSelect(s, u, p)
    \/ \E s \in Sessions : SignUpInsert(s)
    \/ \E s \in Sessions : SignUpMkdir(s)

SpecSignUpRace == LoadedInit /\ [][NextSignUpRace]_vars

\* C9: when two sessions have called sign_up with the same new username and
\* both calls are over, one returned (True, "User created"), the other
\* returned (False, "Username already exists") and neither raised; users
\* holds one row for the username, with the hash of the call that succeeded.
C9_ConcurrentSignUpOneWins ==
    \A s, t \in Sessions :
        (/\ s # t
         /\ pc[s] = "done" /\ pc[t] = "done"
         /\ loc[s].username = loc[t].username)
        => /\ {loc[s].result, loc[t].result} = {"User created", "Username already exists"}
           /\ \A r \in users :
                 r.username = loc[s].username =>
                     \E w \in {s, t} : /\ loc[w].result = "User created"
                                       /\ r.password_hash = loc[w].password_hash
           /\ Cardinality({r \in users : r.username = loc[s].username}) = 1

----------------------------------------------------------------------------
(* SpecIngestDelete: save_recording by the sessions of logged-in users and *)
(* the confirmed delete of the Admin page, their steps interleaved.        *)
(* save_recording: the write of the file, then the INSERT with its commit. *)
(* The delete: the pass over the files, then DELETE FROM recordings.       *)

PlainOwners == {<<"admin">>, <<"joy">>}

\* save_recording up to the end of "with open(...) as f: f.write(...)"
SaveWrite(s, username, original_filename) ==
    /\ pc[s] = "idle"
    /\ nextId <= MaxRecordings
    /\ HasUser(users, username)
    /\ SetStore(WriteAudio(CurrentStore, username, original_filename, "written"))
    /\ pc' = [pc EXCEPT ![s] = "insert"]
    /\ loc' = [loc EXCEPT ![s] = [NoLoc EXCEPT !.username = username,
                                  !.uid = Uuids[nextId], !.fn = original_filename]]
    /\ UNCHANGED <<users, clock, last, hist, zipOut>>
    /\ UNCHANGED uiVars

\* cur.execute("INSERT INTO recordings ...") and conn.commit(); return uid
SaveInsert(s) ==
    /\ pc[s] = "insert"
    /\ SetStore(InsertRecording(CurrentStore, loc[s].username, loc[s].uid, loc[s].fn,
                                clock))
    /\ pc' = [pc EXCEPT ![s] = "idle"]
    /\ loc' = [loc EXCEPT ![s].result = "returned"]
    /\ hist' = [hist EXCEPT !.saved = Append(@, [owner |-> loc[s].username,
                                                  uid |-> loc[s].uid])]
    /\ UNCHANGED <<users, clock, last, zipOut>>
    /\ UNCHANGED uiVars

\* the loops over DATA_DIR.glob("*")
DeleteFilesPass ==
    /\ pc["admin"] = "idle"
    /\ hist.deletes < 1
    /\ files' = FilesAfterDelete(dirs, files)
    /\ dirs' = DirsAfterDelete(dirs, files)
    /\ pc' = [pc EXCEPT !["admin"] = "delete_rows"]
    /\ UNCHANGED <<users, recordings, clock, nextId, last, hist, zipOut, loc>>
    /\ UNCHANGED uiVars

\* cur.execute("DELETE FROM recordings") and conn.commit()
DeleteRows ==
    /\ pc["admin"] = "delete_rows"
    /\ recordings' = {}
    /\ pc' = [pc EXCEPT !["admin"] = "idle"]
    /\ hist' = [hist EXCEPT !.deletes = 1]
    /\ UNCHANGED <<users, dirs, files, clock, nextId, last, zipOut, loc>>
    /\ UNCHANGED uiVars

NextIngestDelete ==
    \/ CallSignUp(<<"joy">>, "pw", 1)
    \/ \E s \in Sessions, u \in PlainOwners : SaveWrite(s, u, RecordingWav)
    \/ \E s \in Sessions : SaveInsert(s)
    \/ DeleteFilesPass
    \/ DeleteRows

SpecIngestDelete == LoadedInit /\ [][NextIngestDelete]_vars

Quiescent == \A p \in Procs : pc[p] = "idle"

\* C10: in every state every row of recordings has a filepath that names a
\* file on disk, and once no call is in flight every file under the storage
\* root has a row.
C10_IndexAndFilesAgree ==
    /\ \A r \in recordings : FileExists(files, r.filepath)
    /\ Quiescent => \A f \in files : UnderRoot(f) => \E r \in recordings : r.filepath = f

\* the first half of C10 at the states where no call is in flight
C10_RowsHaveFilesWhenQuiescent ==
    Quiescent => \A r \in recordings : FileExists(files, r.filepath)

\* the second half of C10
C10_FilesHaveRowsWhenQuiescent ==
    Quiescent => \A f \in files : UnderRoot(f) => \E r \in recordings : r.filepath = f

----------------------------------------------------------------------------
(* Claims checked under Spec *)

IsAdminRow(us, username) == \E r \in us : r.username = username /\ r.is_admin

\* C1: a privileged operation (list all, export CSV, export ZIP, bulk delete)
\* runs only for a session whose auth is logged_in with is_admin true; the
\* privileged widgets are rendered only for such a session; a session's
\* is_admin is true only if its username is a users row with is_admin = 1;
\* a session that never logged in as an admin has executed none of them.
C1_PrivilegedOnlyForAdmin ==
    /\ \A e \in privLog :
          /\ e.auth.logged_in /\ e.auth.is_admin
          /\ auth[e.session] = e.auth
          /\ e.session \in everAdmin
    /\ \A s \in Sessions :
          /\ auth[s].is_admin => auth[s].logged_in /\ IsAdminRow(users, auth[s].username)
          /\ shown[s] \in {"panel", "confirm"} => auth[s].logged_in /\ auth[s].is_admin
          /\ auth[s].is_admin => s \in everAdmin
    /\ zipOut # NoZip => \E e \in privLog : e.op = "export_zip"

\* an administrator has built the ZIP of a stored recording while another
\* session is logged in as an ordinary user on the Admin page
C1_Witness ==
    /\ \E e \in privLog : e.op = "export_zip" /\ e.session = "s1"
    /\ Len(zipOut.entries) = 1
    /\ auth["s2"].logged_in /\ ~auth["s2"].is_admin /\ nav["s2"] = "Admin"
    /\ shown["s2"] = "page"

Admins(us) == {r \in us : r.is_admin}

\* C6: after the first run the users table holds exactly one row with
\* is_admin = 1, named admin; no step changes or removes an admin row; a
\* step adds an admin row only when there was none, and then it is the
\* bootstrap row; every other row a step adds has is_admin = 0.
C6_ExactlyOneBootstrapAdmin ==
    [][/\ ran' => /\ Cardinality(Admins(users')) = 1
                  /\ \A r \in Admins(users') : r.username = AdminName
       /\ \A r \in Admins(users) : r \in users'
       /\ \A r \in users' \ users :
             r.is_admin => /\ Admins(users) = {}
                           /\ r.username = AdminName
                           /\ check_password_hash(r.password_hash, adminPass)
       /\ \A r \in users : r \in users']_vars

\* the process was restarted with another YORLECT_ADMIN_PASS, the script has
\* run again, a user has signed up, and the admin row still holds the hash
\* of the first password
C6_Witness ==
    /\ ran
    /\ adminPass = "pw"
    /\ \E s \in Sessions : Loaded(s)
    /\ \E r \in users : r.username = AdminName /\ r.password_hash.pw = DefaultAdminPass
    /\ \E r \in users : r.username = <<"joy">> /\ ~r.is_admin

\* C8: an administrator who pressed "Delete all recordings" and then ticked
\* the confirmation checkbox has caused the bulk delete to run: once the run
\* started by the tick is over, the files are removed and recordings is empty.
C8_ConfirmedDeleteRuns ==
    last.op = "tick" =>
        /\ hist.deletes > 0
        /\ recordings = {}
        /\ ~\E f \in files : UnderRoot(f)

====
